---- MODULE Spec2Model ----
(***************************************************************************)
(* A model of pyority's dependency graph engine (pyority/scheduler.py,     *)
(* classes Graph and Scheduler) and of its nodes (pyority/nodes.py:        *)
(* GraphNode, TaskStart, TaskEnd, TaskNodePair).                           *)
(*                                                                         *)
(* Conventions.                                                            *)
(*  - Python indices are 0-based; the model's are 1-based (TLA+ sequences),*)
(*    so model index i is Python index i-1.  Orders and comparisons of     *)
(*    indices are unaffected.                                              *)
(*  - A scipy sparse matrix is a record [shape, nz]: its shape and the set *)
(*    (dok: the dictionary) of its stored, non-zero entries.               *)
(*    direct_dependencies[p, d] is the entry <<p, d>>: d depends on p.     *)
(*    individual_pyorities[0, idx] = v is the entry <<idx, v>>.            *)
(*  - A call that raises leaves the state as the code left it when the     *)
(*    exception was raised; `result` holds the outcome of the last call.   *)
(*    A call that never returns leaves result = "hang" and nothing runs    *)
(*    after it (the program is single-threaded).                           *)
(*  - Three specifications share the state: Spec drives a Graph of         *)
(*    GraphNodes, SchedulerSpec a Scheduler through its own methods, and   *)
(*    LinkSpec the task nodes and pairs a caller constructs by hand.       *)
(***************************************************************************)
EXTENDS Integers, Sequences, FiniteSets, TLC

\* ------------------------------------------------------------- bounds
\* Cap on len(idx_to_node): add_node is not called beyond it.
MaxLen == 3
\* Cap on the number of stored direct edges (re-adding a stored edge is free).
MaxEdges == 2

\* Cap on the number of TaskStart objects constructed (Scheduler.add_task
\* constructs one per task), and on that of TaskEnd objects.
MaxTasks == 3
\* Cap on the number of add_task_dependency calls that store a new edge.
MaxTaskDeps == 1
\* Cap on the number of TaskStart and TaskEnd objects the caller constructs
\* outside a Scheduler.
MaxObjects == 3

\* ---------------------------------------------------------- constants
\* dok_array((128, 128)): the initial shape of the adjacency storage.
InitialSize == 128
\* np.half: 11 significant bits (10 stored + the implicit one).
HalfPrecisionBits == 11
\* np.half: the largest finite value; from 65520 on a value rounds to inf.
HalfMax == 65504

\* ------------------------------------------------------------- nodes
\* The node objects a caller may hold.  Identity is by object (GraphNode
\* defines __hash__ = id and no __eq__), so a node is its name.
Nodes == {"a", "b", "c"}

\* The data objects a caller passes to Scheduler.add_task, TaskStart or
\* TaskEnd: the data the GraphNodes "a" and "c" wrap.
Tasks == {"a", "c"}

\* The TaskStart and the TaskEnd objects, in the order of their construction.
StartNames == <<"s1", "s2", "s3", "s4", "s5">>
EndNames == <<"e1", "e2", "e3", "e4", "e5">>

Starts == {StartNames[k] : k \in DOMAIN StartNames}
Ends == {EndNames[k] : k \in DOMAIN EndNames}

\* Every object that may become a node of the graph.
AllNodes == Nodes \cup Starts \cup Ends

\* What `getattr(self.data, 'pyority', None)` gives for the node's data:
\* <<>> when the data has no such attribute, else <<v>> with v the value the
\* accessor returns.  "a" and "b" carry weights that differ by less than
\* half precision resolves; the accessor of "c" returns a negative number.
DataPyority(node) ==
  CASE node = "a" -> <<2048>>
    [] node = "b" -> <<2049>>
    [] node = "c" -> <<-1>>
    [] OTHER      -> <<>>

\* GraphNode.pyority() without its assertion: a plausible slip.
pyority_unchecked(node) ==
  LET method == DataPyority(node)
  IN  IF method # <<>> THEN [raised |-> FALSE, val |-> method[1]]
      ELSE [raised |-> FALSE, val |-> 0]

\* GraphNode.pyority(), which TaskStart inherits: the data's pyority,
\* asserted non-negative; 0.0 when the data has no accessor.  `node` names
\* the data (a GraphNode of Nodes is named after the data it wraps).
pyority(node) ==
  LET method == DataPyority(node)
  IN  IF method # <<>>
      THEN IF method[1] >= 0
           THEN [raised |-> FALSE, val |-> method[1]]
           ELSE [raised |-> TRUE, val |-> 0]
      ELSE [raised |-> FALSE, val |-> 0]

\* ------------------------------------------------- half precision store
RECURSIVE Pow2(_)
Pow2(k) == IF k = 0 THEN 1 ELSE 2 * Pow2(k - 1)

\* The number of bits of x >= 1.
RECURSIVE BitLen(_)
BitLen(x) == IF x < 2 THEN 1 ELSE 1 + BitLen(x \div 2)

\* np.asarray(x, dtype=np.half) for a non-negative integer x: x rounded to 11
\* significant bits, ties to even.  Values from 65520 on become inf, which
\* the model writes HalfMax + 1.
ToHalf(x) ==
  IF x = 0 THEN 0
  ELSE LET bits == BitLen(x)
           ulp  == IF bits > HalfPrecisionBits
                   THEN Pow2(bits - HalfPrecisionBits) ELSE 1
           q    == x \div ulp
           r    == x % ulp
           up   == (2 * r > ulp) \/ (2 * r = ulp /\ q % 2 = 1)
           v    == IF up THEN (q + 1) * ulp ELSE q * ulp
       IN  IF v > HalfMax THEN HalfMax + 1 ELSE v

VARIABLES
  dirty,                  \* self._dirty
  idx_to_node,            \* self.idx_to_node: a list of nodes
  node_to_idx,            \* self.node_to_idx: a dict node -> index; 0 is
                          \* "the key is absent"
  direct_dependencies,    \* self.direct_dependencies: dok bool matrix
  individual_pyorities,   \* self.individual_pyorities: dok half matrix
  full_dependency_rows,   \* self.full_dependency_rows (and _cols: the same
                          \* matrix in csc layout): <<>> is None
  full_pyorities,         \* self.full_pyorities: <<>> before the first refresh
  order,                  \* self.order
  result,                 \* outcome of the last call
  objects,                \* the TaskStart and TaskEnd objects: .data is
                          \* self.data ("none": not constructed yet), .link
                          \* is self._end of a start and self._start of an
                          \* end ("none": None)
  pairs                   \* the TaskNodePair objects the caller can reach,
                          \* in the order of their construction: .start,
                          \* .end, and .subtasks, a list of positions in
                          \* `pairs`

vars == <<dirty, idx_to_node, node_to_idx, direct_dependencies,
          individual_pyorities, full_dependency_rows, full_pyorities,
          order, result, objects, pairs>>

\* Graph.n_nodes
n_nodes == Len(idx_to_node)

\* Graph.__init__
Init ==
  /\ dirty = TRUE
  /\ idx_to_node = <<>>
  /\ node_to_idx = [node \in AllNodes |-> 0]
  /\ direct_dependencies = [shape |-> <<InitialSize, InitialSize>>, nz |-> {}]
  /\ individual_pyorities = [shape |-> <<InitialSize, 1>>, nz |-> {}]
  /\ full_dependency_rows = <<>>
  /\ full_pyorities = <<>>
  /\ order = <<>>
  /\ result = "ok"
  /\ objects = [node \in Starts \cup Ends |-> [data |-> "none", link |-> "none"]]
  /\ pairs = <<>>

\* ------------------------------------------------------ sparse storage
\* dok resize(n, n): entries outside the new shape are dropped.
ResizeMat(m, n) ==
  [shape |-> <<n, n>>, nz |-> {e \in m.nz : e[1] <= n /\ e[2] <= n}]

\* dok resize(1, n) of the weight vector.
ResizeVec(v, n) ==
  [shape |-> <<1, n>>, nz |-> {e \in v.nz : e[1] <= n}]

\* dok __getitem__: the stored value, 0 when none is stored.
VecAt(v, idx) ==
  IF \E e \in v.nz : e[1] = idx
  THEN (CHOOSE e \in v.nz : e[1] = idx)[2]
  ELSE 0

\* dok __setitem__ on the weight vector: the value is cast to the array's
\* dtype (np.half); a zero is not stored.
SetVec(v, idx, x) ==
  LET h == ToHalf(x)
  IN  [v EXCEPT !.nz = {e \in @ : e[1] # idx}
                       \cup (IF h # 0 THEN {<<idx, h>>} ELSE {})]

\* `m[p, d] ^= True`: a plausible slip for the assignment below.
ToggleMat(m, p, d) ==
  [m EXCEPT !.nz = IF <<p, d>> \in @ THEN @ \ {<<p, d>>} ELSE @ \cup {<<p, d>>}]

\* dok __setitem__ on the adjacency: m[p, d] = True.
SetMat(m, p, d) == [m EXCEPT !.nz = @ \cup {<<p, d>>}]

\* len(self.node_to_idx)
DictLen(map) == Cardinality({node \in AllNodes : map[node] # 0})

\* The registration check with the assertion compiled away.
registration_unchecked(map, nodes) == TRUE

\* assert len(self.node_to_idx) == len(self.idx_to_node)
registration_ok(map, nodes) == DictLen(map) = Len(nodes)

\* ------------------------------------------------------- the graph object
\* The attributes of `self` that add_node and add_node_dependency read and
\* write, with the outcome of the call: what a method that calls them (the
\* Scheduler's) passes from one call to the next.
Self ==
  [dirty |-> dirty, idx_to_node |-> idx_to_node, node_to_idx |-> node_to_idx,
   direct_dependencies |-> direct_dependencies,
   individual_pyorities |-> individual_pyorities, result |-> result]

\* The graph is left as the calls left `self`.
Becomes(self) ==
  /\ dirty' = self.dirty
  /\ idx_to_node' = self.idx_to_node
  /\ node_to_idx' = self.node_to_idx
  /\ direct_dependencies' = self.direct_dependencies
  /\ individual_pyorities' = self.individual_pyorities
  /\ result' = self.result

\* ------------------------------------------------------------ add_node
\* `while size < self.n_nodes: size <<= 1`, run for at most `fuel` rounds.
\* From a size >= 1, n rounds reach 2^n > n; a loop that needs more never
\* ends.
RECURSIVE grow_size(_, _, _)
grow_size(size, n, fuel) ==
  IF ~(size < n) THEN [done |-> TRUE, size |-> size]
  ELSE IF fuel = 0 THEN [done |-> FALSE, size |-> size]
  ELSE grow_size(size * 2, n, fuel - 1)

\* The body of Graph.add_node(node) on `self`; p is what node.pyority() gives
\* when the last line calls it.
add_node_on(self, node, p) ==
  LET idx    == Len(self.idx_to_node) + 1
      nodes1 == Append(self.idx_to_node, node)
      map1   == [self.node_to_idx EXCEPT ![node] = idx]
      n      == Len(nodes1)
      grown  == grow_size(self.direct_dependencies.shape[1], n, n)
      self1  == [self EXCEPT !.dirty = TRUE, !.idx_to_node = nodes1,
                             !.node_to_idx = map1]
  IN  IF ~registration_ok(map1, nodes1)
      THEN [self1 EXCEPT !.result = "AssertionError"]
      ELSE IF ~grown.done
      THEN [self1 EXCEPT !.result = "hang"]
      ELSE LET self2 ==
                 [self1 EXCEPT
                    !.direct_dependencies = ResizeMat(@, grown.size),
                    !.individual_pyorities = ResizeVec(@, grown.size)]
           IN  IF p.raised
               THEN [self2 EXCEPT !.result = "AssertionError"]
               ELSE [self2 EXCEPT
                       !.individual_pyorities = SetVec(@, idx, p.val),
                       !.result = "ok"]

\* Graph.add_node(node), called on a graph of GraphNodes.
add_node(node) ==
  /\ result # "hang"
  /\ n_nodes < MaxLen
  /\ node \in Nodes
  /\ UNCHANGED <<full_dependency_rows, full_pyorities, order, objects, pairs>>
  /\ \E self \in {add_node_on(Self, node, pyority(node))} : Becomes(self)

\* ------------------------------------------------- add_node_dependency
\* add_node_dependency without `self._dirty = True`: a plausible slip.
add_node_dependency_on_keeps_flag(self, this, depends_on_that) ==
  IF this = depends_on_that
  THEN [self EXCEPT !.result = "AssertionError"]
  ELSE IF \/ self.node_to_idx[this] = 0
          \/ self.node_to_idx[depends_on_that] = 0
  THEN [self EXCEPT !.result = "KeyError"]
  ELSE LET this_idx    == self.node_to_idx[this]
           depends_idx == self.node_to_idx[depends_on_that]
           rows        == self.direct_dependencies.shape[1]
       IN  IF this_idx = depends_idx
           THEN [self EXCEPT !.result = "AssertionError"]
           ELSE IF this_idx > rows \/ depends_idx > rows
           THEN [self EXCEPT !.result = "IndexError"]
           ELSE [self EXCEPT
                   !.direct_dependencies = SetMat(@, depends_idx, this_idx),
                   !.result = "ok"]

\* The body of Graph.add_node_dependency(this, depends_on_that) on `self`.
add_node_dependency_on(self, this, depends_on_that) ==
  IF this = depends_on_that
  THEN [self EXCEPT !.result = "AssertionError"]
  ELSE LET self1 == [self EXCEPT !.dirty = TRUE]
       IN  IF \/ self.node_to_idx[this] = 0
              \/ self.node_to_idx[depends_on_that] = 0
           THEN [self1 EXCEPT !.result = "KeyError"]
           ELSE LET this_idx    == self.node_to_idx[this]
                    depends_idx == self.node_to_idx[depends_on_that]
                    rows        == self.direct_dependencies.shape[1]
                IN  IF this_idx = depends_idx
                    THEN [self1 EXCEPT !.result = "AssertionError"]
                    ELSE IF this_idx > rows \/ depends_idx > rows
                    THEN [self1 EXCEPT !.result = "IndexError"]
                    ELSE [self1 EXCEPT
                            !.direct_dependencies =
                               SetMat(@, depends_idx, this_idx),
                            !.result = "ok"]

\* Graph.add_node_dependency(this, depends_on_that), called on a graph of
\* GraphNodes.
add_node_dependency(this, depends_on_that) ==
  /\ result # "hang"
  /\ this \in Nodes /\ depends_on_that \in Nodes
  /\ UNCHANGED <<idx_to_node, node_to_idx, individual_pyorities,
                 full_dependency_rows, full_pyorities, order, objects, pairs>>
  /\ \E self \in {add_node_dependency_on(Self, this, depends_on_that)} :
       /\ Cardinality(self.direct_dependencies.nz) <= MaxEdges
       /\ Becomes(self)

\* --------------------------------------- _set_full_dependency_matrices
\* identity(n, dtype=np.bool_)
Identity(n) == [shape |-> <<n, n>>, nz |-> {<<i, i>> : i \in 1..n}]

\* (A + B) of two bool matrices of one shape: the entrywise OR.
MatAdd(a, b) == [shape |-> a.shape, nz |-> a.nz \cup b.nz]

\* M @ M of a square bool matrix: OR over k of M[i, k] AND M[k, j].
MatSquare(m) ==
  LET n == m.shape[1]
  IN  [shape |-> m.shape,
       nz |-> {e \in (1..n) \X (1..n) :
                 \E k \in 1..n : <<e[1], k>> \in m.nz /\ <<k, e[2]>> \in m.nz}]

\* M.nnz
nnz(m) == Cardinality(m.nz)

\* The squaring loop with `nnz = next_nnz` left out: nnz stays 0.
RECURSIVE closure_loop_stuck(_, _, _, _)
closure_loop_stuck(M, cur_nnz, next_nnz, fuel) ==
  IF ~(cur_nnz # next_nnz) THEN [done |-> TRUE, M |-> M]
  ELSE IF fuel = 0 THEN [done |-> FALSE, M |-> M]
  ELSE LET M2 == MatSquare(M)
       IN  closure_loop_stuck(M2, cur_nnz, nnz(M2), fuel - 1)

\* `while nnz != next_nnz: M = M @ M; nnz = next_nnz; next_nnz = M.nnz`, run
\* for at most `fuel` rounds.
RECURSIVE closure_loop(_, _, _, _)
closure_loop(M, cur_nnz, next_nnz, fuel) ==
  IF ~(cur_nnz # next_nnz) THEN [done |-> TRUE, M |-> M]
  ELSE IF fuel = 0 THEN [done |-> FALSE, M |-> M]
  ELSE LET M2 == MatSquare(M)
       IN  closure_loop(M2, next_nnz, nnz(M2), fuel - 1)

\* A matrix of n x n entries has at most n*n + 1 different non-zero counts; a
\* loop that runs longer than this (plus the first and the last round) does
\* not stop on its own.
ClosureFuel(n) == n * n + 2

\* Graph._set_full_dependency_matrices() on a graph of n nodes with adjacency
\* `direct`: whether the loop ends, and the matrix it ends with.  The resize
\* of its first line also stays in self.direct_dependencies (prepare_body).
set_full_dependency_matrices(direct, n) ==
  LET resized == ResizeMat(direct, n)
      M0      == MatAdd(resized, Identity(n))
      end     == closure_loop(M0, 0, nnz(M0), ClosureFuel(n))
  IN  [done |-> end.done, M |-> end.M]

\* ------------------------------------------------- _set_full_pyorities
RECURSIVE SumOver(_, _)
SumOver(S, v) ==
  IF S = {} THEN 0
  ELSE LET i == CHOOSE i \in S : TRUE
       IN  VecAt(v, i) + SumOver(S \ {i}, v)

\* (individual_pyorities @ MC).toarray()[0]: entry j is the sum over i of
\* individual_pyorities[0, i] * MC[i, j].  The half values are summed in
\* single precision, which is exact below 2^24.
VecMat(v, m) ==
  [j \in 1..m.shape[2] |-> SumOver({i \in 1..m.shape[1] : <<i, j>> \in m.nz}, v)]

\* MR[[i]].nnz: the number of stored entries of row i.
RowNnz(m, i) == Cardinality({e \in m.nz : e[1] = i})

\* The sort key with the row count not negated.
SortKeyAscendingCount(fp, MR, i) == <<0 - fp[i], RowNnz(MR, i), i>>

\* (-fp, -MR[[i]].nnz, i)
SortKey(fp, MR, i) == <<0 - fp[i], 0 - RowNnz(MR, i), i>>

\* Python's order of tuples of three numbers.
TupleLess(a, b) ==
  \/ a[1] < b[1]
  \/ a[1] = b[1] /\ a[2] < b[2]
  \/ a[1] = b[1] /\ a[2] = b[2] /\ a[3] < b[3]

\* sorted(...) of a set of tuples, as a sequence.
RECURSIVE Sorted(_)
Sorted(S) ==
  IF S = {} THEN <<>>
  ELSE LET least == CHOOSE a \in S : \A b \in S \ {a} : TupleLess(a, b)
       IN  <<least>> \o Sorted(S \ {least})

\* _set_full_pyorities with `fp_nnz_idx[0][2]` for `fni[2]`: a plausible slip.
set_full_pyorities_first(vec, MR, MC, nodes) ==
  LET n           == Len(nodes)
      resized     == ResizeVec(vec, n)
      nonneg      == \A e \in resized.nz : e[2] >= 0
      fp          == VecMat(resized, MC)
      fp_nnz_idx  == Sorted({SortKey(fp, MR, i) : i \in 1..n})
  IN  [vec |-> resized, asserted |-> nonneg, full_pyorities |-> fp,
       order |-> [k \in 1..n |-> nodes[fp_nnz_idx[1][3]]]]

\* Graph._set_full_pyorities(): the resized weight vector, whether the
\* assertion on the stored weights holds, full_pyorities and order.
set_full_pyorities(vec, MR, MC, nodes) ==
  LET n           == Len(nodes)
      resized     == ResizeVec(vec, n)
      nonneg      == \A e \in resized.nz : e[2] >= 0
      fp          == VecMat(resized, MC)
      fp_nnz_idx  == Sorted({SortKey(fp, MR, i) : i \in 1..n})
  IN  [vec |-> resized, asserted |-> nonneg, full_pyorities |-> fp,
       order |-> [k \in 1..n |-> nodes[fp_nnz_idx[k][3]]]]

\* ------------------------------------------------------------- prepare
\* prepare() without its last line, `self._dirty = False`.
prepare_body_keeps_dirty ==
  IF ~dirty
  THEN /\ result' = "ok"
       /\ UNCHANGED <<dirty, direct_dependencies, individual_pyorities,
                      full_dependency_rows, full_pyorities, order>>
  ELSE /\ direct_dependencies' = ResizeMat(direct_dependencies, n_nodes)
       /\ \E fd \in {set_full_dependency_matrices(direct_dependencies, n_nodes)} :
            IF ~fd.done
            THEN /\ result' = "hang"
                 /\ UNCHANGED <<dirty, individual_pyorities,
                                full_dependency_rows, full_pyorities, order>>
            ELSE /\ full_dependency_rows' = <<fd.M>>
                 /\ \E fo \in {set_full_pyorities(individual_pyorities, fd.M,
                                                  fd.M, idx_to_node)} :
                      /\ individual_pyorities' = fo.vec
                      /\ IF ~fo.asserted
                         THEN /\ result' = "AssertionError"
                              /\ UNCHANGED <<dirty, full_pyorities, order>>
                         ELSE /\ result' = "ok"
                              /\ full_pyorities' = fo.full_pyorities
                              /\ order' = fo.order
                              /\ dirty' = TRUE


\* Graph.prepare(), also the first statement of Graph.__iter__().
prepare_body ==
  IF ~dirty
  THEN /\ result' = "ok"
       /\ UNCHANGED <<dirty, direct_dependencies, individual_pyorities,
                      full_dependency_rows, full_pyorities, order>>
  ELSE /\ direct_dependencies' = ResizeMat(direct_dependencies, n_nodes)
       /\ \E fd \in {set_full_dependency_matrices(direct_dependencies, n_nodes)} :
            IF ~fd.done
            THEN /\ result' = "hang"
                 /\ UNCHANGED <<dirty, individual_pyorities,
                                full_dependency_rows, full_pyorities, order>>
            ELSE /\ full_dependency_rows' = <<fd.M>>
                 /\ \E fo \in {set_full_pyorities(individual_pyorities, fd.M,
                                                  fd.M, idx_to_node)} :
                      /\ individual_pyorities' = fo.vec
                      /\ IF ~fo.asserted
                         THEN /\ result' = "AssertionError"
                              /\ UNCHANGED <<dirty, full_pyorities, order>>
                         ELSE /\ result' = "ok"
                              /\ full_pyorities' = fo.full_pyorities
                              /\ order' = fo.order
                              /\ dirty' = FALSE

\* Graph.prepare()
prepare ==
  /\ result # "hang"
  /\ UNCHANGED <<idx_to_node, node_to_idx, objects, pairs>>
  /\ prepare_body

\* Graph.__iter__(), consumed to its end: prepare(), then `yield from
\* self.order`.  Its only effect on the graph is that of prepare(), so that
\* a step of iter is a step of prepare; what it yields is iter_yields.
iter ==
  /\ result # "hang"
  /\ UNCHANGED <<idx_to_node, node_to_idx, objects, pairs>>
  /\ prepare_body

\* The sequence an iteration yields: self.order as prepare() left it.
iter_yields == order'

\* ------------------------------------------------- TaskStart, TaskEnd
\* The object a constructor call returns: the first of `names` that is not
\* constructed yet.
NewObject(objs, names) ==
  names[1 + Cardinality({k \in DOMAIN names : objs[names[k]].data # "none"})]

\* The number of objects of `names` constructed so far.
Constructed(objs, names) ==
  Cardinality({k \in DOMAIN names : objs[names[k]].data # "none"})

\* TaskStart.__init__(data): self.data = data; self._end = None
TaskStart_init(objs, start, data) ==
  [objs EXCEPT ![start] = [data |-> data, link |-> "none"]]

\* TaskEnd.__init__(data): self.data = data; self._start = None
TaskEnd_init(objs, end, data) ==
  [objs EXCEPT ![end] = [data |-> data, link |-> "none"]]

\* TaskEnd.pyority(): always 0.0
TaskEnd_pyority == [raised |-> FALSE, val |-> 0]

\* The getter of TaskStart.end: the object behind the weak reference (the
\* objects of the model are all alive), or the exception of an unset link.
get_end(objs, start) ==
  IF objs[start].link = "none"
  THEN [raised |-> TRUE, val |-> "none"]
  ELSE [raised |-> FALSE, val |-> objs[start].link]

\* The getter of TaskEnd.start
get_start(objs, end) ==
  IF objs[end].link = "none"
  THEN [raised |-> TRUE, val |-> "none"]
  ELSE [raised |-> FALSE, val |-> objs[end].link]

\* A setter that overwrites a link that is set: a plausible slip.
set_end_overwriting(objs, start, end) ==
  [raised |-> FALSE, objects |-> [objs EXCEPT ![start].link = end]]

\* The setter of TaskStart.end: `start.end = end`
set_end(objs, start, end) ==
  IF objs[start].link # "none"
  THEN [raised |-> TRUE, objects |-> objs]
  ELSE [raised |-> FALSE, objects |-> [objs EXCEPT ![start].link = end]]

\* The setter of TaskEnd.start: `end.start = start`
set_start(objs, end, start) ==
  IF objs[end].link # "none"
  THEN [raised |-> TRUE, objects |-> objs]
  ELSE [raised |-> FALSE, objects |-> [objs EXCEPT ![end].link = start]]

\* ---------------------------------------------------------- TaskNodePair
\* TaskNodePair.__init__(start, end): the outcome, the objects as the call
\* left them and, when it returned, the new pair.
TaskNodePair_init(objs, start, end) ==
  LET none == [start |-> start, end |-> end, subtasks |-> <<>>]
  IN  IF objs[start].data # objs[end].data
      THEN [result |-> "AssertionError", objects |-> objs, pair |-> none]
      ELSE LET linked1 == set_end(objs, start, end)
           IN  IF linked1.raised
               THEN [result |-> "Exception", objects |-> objs, pair |-> none]
               ELSE LET linked2 == set_start(linked1.objects, end, start)
                    IN  IF linked2.raised
                        THEN [result |-> "Exception",
                              objects |-> linked1.objects, pair |-> none]
                        ELSE [result |-> "ok", objects |-> linked2.objects,
                              pair |-> [start |-> start, end |-> end,
                                        subtasks |-> <<>>]]

\* register_subtask that puts the pair first: a plausible slip.
register_subtask_first(prs, parent, pair) ==
  [prs EXCEPT ![parent].subtasks = <<pair>> \o @]

\* TaskNodePair.register_subtask(pair) on the pair at position `parent`.
register_subtask(prs, parent, pair) ==
  [prs EXCEPT ![parent].subtasks = Append(@, pair)]

\* ------------------------------------------------------------ Scheduler
\* What a Scheduler method works on: the graph (`self`, with the outcome of
\* the last call in self.result), the task objects and the pairs.
Sched == [self |-> Self, objects |-> objects, pairs |-> pairs]

\* The scheduler is left as the calls left `sch`.
SchedBecomes(sch) ==
  /\ Becomes(sch.self)
  /\ objects' = sch.objects
  /\ pairs' = sch.pairs

\* Statement after statement: `sch` is the scheduler as a call left it; when
\* the call raised (or hangs) the method ends there, else Rest goes on.
Then(sch, Rest(_)) ==
  CHOOSE out \in {IF left.self.result # "ok" THEN left ELSE Rest(left) :
                    left \in {sch}} : TRUE

\* self.add_node(node) inside a Scheduler method.
call_add_node(sch, node, p) ==
  [sch EXCEPT !.self = add_node_on(@, node, p)]

\* The call with its two arguments exchanged: a plausible slip.
call_add_node_dependency_reversed(sch, this, depends_on_that) ==
  [sch EXCEPT !.self = add_node_dependency_on(@, depends_on_that, this)]

\* self.add_node_dependency(this, depends_on_that) inside a Scheduler method.
call_add_node_dependency(sch, this, depends_on_that) ==
  [sch EXCEPT !.self = add_node_dependency_on(@, this, depends_on_that)]

\* Scheduler.add_task(task) without subtasks: on return the new pair is the
\* last of sch.pairs; a call that raises has constructed its two nodes and
\* its pair, which nothing refers to afterwards, and leaves the graph as the
\* failing call left it.
add_task_on(sch, task) ==
  LET start == NewObject(sch.objects, StartNames)
      end   == NewObject(sch.objects, EndNames)
      made  == TaskNodePair_init(
                 TaskEnd_init(TaskStart_init(sch.objects, start, task), end, task),
                 start, end)
  IN  Then([sch EXCEPT !.objects = made.objects, !.self.result = made.result],
        LAMBDA sch1 :
      Then(call_add_node(sch1, start, pyority(task)),
        LAMBDA sch2 :
      Then(call_add_node(sch2, end, TaskEnd_pyority),
        LAMBDA sch3 :
      Then(call_add_node_dependency(sch3, end, start),
        LAMBDA sch4 : [sch4 EXCEPT !.pairs = Append(@, made.pair)]))))

\* Scheduler.add_subtasks(parent_pair, *subtasks): parent is the position of
\* parent_pair in sch.pairs.  The loop stops at the first call that raises.
RECURSIVE add_subtasks_on(_, _, _)
add_subtasks_on(sch, parent, subtasks) ==
  IF subtasks = <<>> THEN sch
  ELSE Then(add_task_on(sch, Head(subtasks)),
         LAMBDA sch1 :
       Then(call_add_node_dependency(sch1, sch1.pairs[Len(sch1.pairs)].start,
                                     sch1.pairs[parent].start),
         LAMBDA sch2 :
       Then(call_add_node_dependency(sch2, sch2.pairs[parent].end,
                                     sch2.pairs[Len(sch2.pairs)].end),
         LAMBDA sch3 :
       add_subtasks_on(
         [sch3 EXCEPT !.pairs = register_subtask(@, parent, Len(sch3.pairs))],
         parent, Tail(subtasks)))))

\* Scheduler.add_task(task, *subtasks).  When the call raises in its
\* subtasks the caller gets no pair: neither the task's pair nor, through
\* it, the pairs of its subtasks can be reached.
add_task_with(sch, task, subtasks) ==
  Then(add_task_on(sch, task),
    LAMBDA sch1 :
      IF subtasks = <<>> THEN sch1
      ELSE CHOOSE out \in
             {IF sch2.self.result # "ok"
              THEN [sch2 EXCEPT !.pairs = sch.pairs] ELSE sch2 :
                sch2 \in {add_subtasks_on(sch1, Len(sch1.pairs), subtasks)}} :
             TRUE)

\* The argument lists `*subtasks` of the model: up to two tasks.
SubtaskLists ==
  {<<>>} \cup {<<t>> : t \in Tasks} \cup {<<t, u>> : t \in Tasks, u \in Tasks}

\* Scheduler.add_task(task, *subtasks)
add_task(task, subtasks) ==
  /\ result # "hang"
  /\ Constructed(objects, StartNames) + 1 + Len(subtasks) <= MaxTasks
  /\ UNCHANGED <<full_dependency_rows, full_pyorities, order>>
  /\ \E entry \in {[Sched EXCEPT !.self.result = "ok"]} :
       \E sch \in {add_task_with(entry, task, subtasks)} : SchedBecomes(sch)

\* Scheduler.add_subtasks(parent_pair, *subtasks)
add_subtasks(parent_pair, subtasks) ==
  /\ result # "hang"
  /\ parent_pair \in DOMAIN pairs
  /\ subtasks # <<>>
  /\ Constructed(objects, StartNames) + Len(subtasks) <= MaxTasks
  /\ UNCHANGED <<full_dependency_rows, full_pyorities, order>>
  /\ \E entry \in {[Sched EXCEPT !.self.result = "ok"]} :
       \E sch \in {add_subtasks_on(entry, parent_pair, subtasks)} :
         SchedBecomes(sch)

\* The edges add_task_dependency calls have stored: those from the end of a
\* pair to the start of a pair.
TaskDeps(direct, map) ==
  {e \in direct.nz :
     \E p, q \in DOMAIN pairs :
       e = <<map[pairs[q].end], map[pairs[p].start]>>}

\* Scheduler.add_task_dependency(this, depends_on_that), of two pairs (the
\* assertions on their class hold).
add_task_dependency(this, depends_on_that) ==
  /\ result # "hang"
  /\ this \in DOMAIN pairs /\ depends_on_that \in DOMAIN pairs
  /\ UNCHANGED <<idx_to_node, node_to_idx, individual_pyorities,
                 full_dependency_rows, full_pyorities, order, objects, pairs>>
  /\ \E self \in {add_node_dependency_on(Self, pairs[this].start,
                                         pairs[depends_on_that].end)} :
       /\ Cardinality(TaskDeps(self.direct_dependencies, node_to_idx))
            <= MaxTaskDeps
       /\ Becomes(self)

\* ------------------------------------- task nodes in the caller's hands
\* TaskStart(data), called by the user of the library.
new_TaskStart(data) ==
  /\ Constructed(objects, StartNames) + Constructed(objects, EndNames)
       < MaxObjects
  /\ objects' = TaskStart_init(objects, NewObject(objects, StartNames), data)
  /\ result' = "ok"
  /\ UNCHANGED <<dirty, idx_to_node, node_to_idx, direct_dependencies,
                 individual_pyorities, full_dependency_rows, full_pyorities,
                 order, pairs>>

\* TaskEnd(data), called by the user of the library.
new_TaskEnd(data) ==
  /\ Constructed(objects, StartNames) + Constructed(objects, EndNames)
       < MaxObjects
  /\ objects' = TaskEnd_init(objects, NewObject(objects, EndNames), data)
  /\ result' = "ok"
  /\ UNCHANGED <<dirty, idx_to_node, node_to_idx, direct_dependencies,
                 individual_pyorities, full_dependency_rows, full_pyorities,
                 order, pairs>>

\* `start.end = end` of two constructed objects.
assign_end(start, end) ==
  /\ objects[start].data # "none" /\ objects[end].data # "none"
  /\ \E set \in {set_end(objects, start, end)} :
       /\ objects' = set.objects
       /\ result' = IF set.raised THEN "Exception" ELSE "ok"
  /\ UNCHANGED <<dirty, idx_to_node, node_to_idx, direct_dependencies,
                 individual_pyorities, full_dependency_rows, full_pyorities,
                 order, pairs>>

\* `end.start = start` of two constructed objects.
assign_start(end, start) ==
  /\ objects[start].data # "none" /\ objects[end].data # "none"
  /\ \E set \in {set_start(objects, end, start)} :
       /\ objects' = set.objects
       /\ result' = IF set.raised THEN "Exception" ELSE "ok"
  /\ UNCHANGED <<dirty, idx_to_node, node_to_idx, direct_dependencies,
                 individual_pyorities, full_dependency_rows, full_pyorities,
                 order, pairs>>

\* TaskNodePair(start, end) of two constructed objects; the caller keeps the
\* pair a call returns.
new_TaskNodePair(start, end) ==
  /\ objects[start].data # "none" /\ objects[end].data # "none"
  /\ \E made \in {TaskNodePair_init(objects, start, end)} :
       /\ objects' = made.objects
       /\ result' = made.result
       /\ pairs' = IF made.result = "ok" THEN Append(pairs, made.pair) ELSE pairs
  /\ UNCHANGED <<dirty, idx_to_node, node_to_idx, direct_dependencies,
                 individual_pyorities, full_dependency_rows, full_pyorities,
                 order>>

\* ------------------------------------------------------- specification
Next ==
  \/ \E node \in Nodes : add_node(node)
  \/ \E this \in Nodes, depends_on_that \in Nodes :
       add_node_dependency(this, depends_on_that)
  \/ prepare
  \/ iter

Spec == Init /\ [][Next]_vars

\* The calls on a Scheduler: its own methods, and the refresh it inherits
\* (an iteration acts on the scheduler as prepare does).
SchedulerNext ==
  \/ \E task \in Tasks, subtasks \in SubtaskLists : add_task(task, subtasks)
  \/ \E parent_pair \in 1..MaxTasks, subtasks \in SubtaskLists :
       add_subtasks(parent_pair, subtasks)
  \/ \E this \in 1..MaxTasks, depends_on_that \in 1..MaxTasks :
       add_task_dependency(this, depends_on_that)
  \/ prepare

SchedulerSpec == Init /\ [][SchedulerNext]_vars

\* The calls on task nodes and pairs outside a Scheduler.
LinkNext ==
  \/ \E data \in Tasks : new_TaskStart(data)
  \/ \E data \in Tasks : new_TaskEnd(data)
  \/ \E start \in Starts, end \in Ends : assign_end(start, end)
  \/ \E start \in Starts, end \in Ends : assign_start(end, start)
  \/ \E start \in Starts, end \in Ends : new_TaskNodePair(start, end)

LinkSpec == Init /\ [][LinkNext]_vars

\* ------------------------------------------------------------- queries
\* Graph.nodes_i_depend_on(node)
nodes_i_depend_on(node) ==
  IF node_to_idx[node] = 0 THEN [raised |-> "KeyError", val |-> {}]
  ELSE IF node_to_idx[node] > direct_dependencies.shape[2]
  THEN [raised |-> "IndexError", val |-> {}]
  ELSE [raised |-> "",
        val |-> {idx_to_node[e[1]] :
                   e \in {x \in direct_dependencies.nz : x[2] = node_to_idx[node]}}]

\* Graph.nodes_i_fully_depend_on(node): it reads the cached closure as it is.
nodes_i_fully_depend_on(node) ==
  IF node_to_idx[node] = 0 THEN [raised |-> "KeyError", val |-> {}]
  ELSE IF full_dependency_rows = <<>>
  THEN [raised |-> "TypeError", val |-> {}]
  ELSE IF node_to_idx[node] > full_dependency_rows[1].shape[2]
  THEN [raised |-> "IndexError", val |-> {}]
  ELSE LET idx == node_to_idx[node]
       IN  [raised |-> "",
            val |-> {idx_to_node[e[1]] :
                       e \in {x \in full_dependency_rows[1].nz :
                                x[2] = idx /\ x[1] # idx}}]

\* ------------------------------------------- vocabulary of the claims
\* The registered nodes.
Registered == {node \in AllNodes : node_to_idx[node] # 0}

\* No node occurs twice in idx_to_node.
NoDuplicates ==
  \A i, j \in 1..n_nodes : idx_to_node[i] = idx_to_node[j] => i = j

\* The direct dependencies between nodes: <<p, d>> when add_node_dependency(d, p)
\* has succeeded.  An entry is stored at the indices the two nodes had when
\* it was registered, entries are never removed and idx_to_node only grows.
NodeEdges ==
  {<<idx_to_node[e[1]], idx_to_node[e[2]]>> : e \in direct_dependencies.nz}

\* The pairs joined by a chain of one to k+1 edges of R.
RECURSIVE Chains(_, _)
Chains(R, k) ==
  IF k = 0 THEN R
  ELSE LET S == Chains(R, k - 1)
       IN  S \cup {<<x[1][1], x[2][2]>> :
                     x \in {y \in S \X R : y[1][2] = y[2][1]}}

\* <<p, d>>: d depends on p, directly or through a chain of direct dependencies.
Reach == Chains(NodeEdges, n_nodes)

DependsOn(d, p) == <<p, d>> \in Reach

Acyclic == \A node \in Registered : ~DependsOn(node, node)

\* The position of a node in a sequence without repetitions.
PosIn(seq, node) == CHOOSE k \in 1..Len(seq) : seq[k] = node

\* The derived state is that of a prepare() with no mutation since.
Fresh == ~dirty /\ result # "hang"

\* ================================================================ claims

\* C1 (as claimed): after a refresh of an acyclic graph, no node comes in the
\* order before a node it depends on, directly or through a chain.
C1_OrderRespectsDependencies ==
  (Fresh /\ NoDuplicates /\ Acyclic) =>
    \A k1, k2 \in 1..Len(order) :
      k1 < k2 => ~DependsOn(order[k1], order[k2])

\* C2 (as claimed): after a refresh, nodes_i_fully_depend_on(n) is, for every
\* registered node n, exactly the set of the nodes other than n that n
\* depends on through a chain of direct dependencies; it contains
\* nodes_i_depend_on(n) and never n.
C2_FullPredecessorsAreReachable ==
  Fresh =>
    \A node \in Registered :
      LET full == nodes_i_fully_depend_on(node)
      IN  /\ full.raised = ""
          /\ full.val = {m \in Nodes \ {node} : DependsOn(node, m)}
          /\ nodes_i_depend_on(node).val \subseteq full.val
          /\ node \notin full.val

\* C2 on the graphs no registration has failed on: the statement above, for
\* the states in which idx_to_node holds no node twice.
C2_OnGraphsWithoutRepeatedNode ==
  NoDuplicates => C2_FullPredecessorsAreReachable

\* The insertion index of each key of the sort, in the order of the keys: the
\* keys fall by aggregated weight, then by row count, then rise by index.
SortedByKeys(perm, fp, MR) ==
  \A k1, k2 \in 1..Len(perm) :
    k1 < k2 =>
      LET i == perm[k1]
          j == perm[k2]
      IN  \/ fp[i] > fp[j]
          \/ fp[i] = fp[j] /\ RowNnz(MR, i) > RowNnz(MR, j)
          \/ fp[i] = fp[j] /\ RowNnz(MR, i) = RowNnz(MR, j) /\ i < j

\* The orderings of 1..n.
Orderings(n) ==
  {perm \in [1..n -> 1..n] : \A i, j \in 1..n : perm[i] = perm[j] => i = j}

\* C3, first part: the order of a refresh lists the nodes of the indices
\* sorted by falling full pyority, then falling row count of the closure,
\* then rising insertion index.
C3_OrderIsSortedByKeys ==
  Fresh =>
    \E perm \in Orderings(n_nodes) :
      /\ SortedByKeys(perm, full_pyorities, full_dependency_rows[1])
      /\ order = [k \in 1..n_nodes |-> idx_to_node[perm[k]]]

\* A node no direct dependency starts or ends at.
Isolated(node) == \A e \in NodeEdges : e[1] # node /\ e[2] # node

\* C3 (as claimed): the first part, and of two registered nodes without any
\* edge the one of strictly greater own weight comes first.
C3_GreaterWeightFirst ==
  /\ C3_OrderIsSortedByKeys
  /\ (Fresh /\ NoDuplicates) =>
       \A n1, n2 \in Registered :
         ( /\ Isolated(n1) /\ Isolated(n2)
           /\ ~pyority(n1).raised /\ ~pyority(n2).raised
           /\ pyority(n1).val > pyority(n2).val )
         => PosIn(order, n1) < PosIn(order, n2)

\* The sum of the stored weights of a set of nodes.
RECURSIVE WeightOf(_)
WeightOf(S) ==
  IF S = {} THEN 0
  ELSE LET node == CHOOSE node \in S : TRUE
       IN  VecAt(individual_pyorities, node_to_idx[node]) + WeightOf(S \ {node})

\* C4 (as claimed): after a refresh the full pyority of a node is its own
\* pyority plus the pyorities of the nodes that depend on it, each once.
C4_FullPyorityCountsDependents ==
  (Fresh /\ NoDuplicates) =>
    \A node \in Registered :
      full_pyorities[node_to_idx[node]] =
        WeightOf({node} \cup {d \in Registered : DependsOn(d, node)})

\* What the code computes instead: the node's own pyority plus the pyorities
\* of the nodes it depends on.
C4_FullPyorityCountsPrerequisites ==
  (Fresh /\ NoDuplicates) =>
    \A node \in Registered :
      full_pyorities[node_to_idx[node]] =
        WeightOf({node} \cup {p \in Registered : DependsOn(node, p)})

\* C5 (as claimed): every call returns; no add_node call is left running in
\* its capacity-doubling loop.
C5_EveryCallReturns == result # "hang"

\* A refresh has left the derived state complete: the call returned, the
\* flag is clear, squaring the cached closure adds nothing to it, and the
\* order holds the node of every index.
RefreshedWell ==
  /\ result' = "ok"
  /\ ~dirty'
  /\ full_dependency_rows' # <<>>
  /\ MatSquare(full_dependency_rows'[1]).nz = full_dependency_rows'[1].nz
  /\ Len(order') = n_nodes
  /\ \A i \in 1..n_nodes : \E k \in 1..Len(order') : order'[k] = idx_to_node[i]

\* C6: on every graph, cyclic ones included, every step of prepare() (alone
\* or as the first statement of an iteration) ends: its squaring loop
\* reaches a closure whose non-zero count no longer changes, and it leaves
\* an order that holds every node instead of failing.
C6_PrepareTerminates == [][RefreshedWell \/ ~prepare]_vars

\* C6's case: a graph with a cycle has been refreshed.
C6_Witness ==
  /\ Fresh /\ result = "ok"
  /\ ~Acyclic
  /\ Len(order) = n_nodes /\ n_nodes >= 2

\* C7 (as claimed): idx_to_node and node_to_idx are inverse bijections in
\* every reachable state.
C7_IndexBijection ==
  /\ NoDuplicates
  /\ \A i \in 1..n_nodes : node_to_idx[idx_to_node[i]] = i
  /\ \A node \in Registered :
       node_to_idx[node] \in 1..n_nodes /\ idx_to_node[node_to_idx[node]] = node

\* C8: add_node of a node that is registered already raises at that call, and
\* so does add_node_dependency(n, n), which changes nothing; no prepare() or
\* iteration raises later in their place.
C8_FailFast ==
  [][ /\ \A node \in Nodes :
           (node_to_idx[node] # 0 /\ add_node(node))
             => result' = "AssertionError"
      /\ \A node \in Nodes :
           add_node_dependency(node, node)
             => (result' = "AssertionError"
                 /\ UNCHANGED <<dirty, direct_dependencies>>)
      /\ (result' = "ok" \/ ~prepare) ]_vars

\* C8's case: the last call registered a node a second time, and raised.
C8_Witness ==
  /\ result = "AssertionError"
  /\ n_nodes >= 2
  /\ \E i \in 1..(n_nodes - 1) : idx_to_node[i] = idx_to_node[n_nodes]

\* C9: for data whose accessor returns a negative number, computing the
\* node's weight raises, and so an add_node of the node never returns
\* normally: it ends in AssertionError (or, on a graph refreshed while
\* empty, in the loop before the weight is computed: C5).  The call stores
\* no weight, and no stored weight is ever negative or an explicit zero.
C9_NegativeWeightRaises ==
  [][ /\ \A node \in Nodes :
           ( /\ DataPyority(node) # <<>>
             /\ DataPyority(node)[1] < 0
             /\ add_node(node) )
           => /\ pyority(node).raised
              /\ result' \in {"AssertionError", "hang"}
              /\ individual_pyorities'.nz = individual_pyorities.nz
      /\ \A e \in individual_pyorities'.nz : e[2] > 0 ]_vars

\* C9's case: the last call registered "c", whose accessor is negative, on a
\* graph without repeated node, and raised in the weight computation.
C9_Witness ==
  /\ result = "AssertionError"
  /\ NoDuplicates
  /\ n_nodes >= 1
  /\ DataPyority(idx_to_node[n_nodes])[1] < 0
  /\ VecAt(individual_pyorities, n_nodes) = 0

\* The edge "this depends on that" is stored.
EdgeStored(this, that) ==
  /\ node_to_idx[this] # 0
  /\ node_to_idx[that] # 0
  /\ <<node_to_idx[that], node_to_idx[this]>> \in direct_dependencies.nz

\* C10: a successful add_node_dependency(a, b) stores the edge, and a call
\* that finds the edge stored returns normally and leaves nodes, weights and
\* adjacency as they are (it only marks the state stale); a call that raises
\* leaves them as they are, too.  Closure and order are computed from these
\* alone, so the refresh after the second call computes what the refresh
\* after the first did.
C10_EdgeIdempotent ==
  [][ \A this, that \in Nodes :
        add_node_dependency(this, that) =>
          /\ result' = "ok" => EdgeStored(this, that)'
          /\ EdgeStored(this, that) =>
               /\ result' = "ok"
               /\ dirty'
               /\ UNCHANGED <<idx_to_node, node_to_idx, individual_pyorities,
                              direct_dependencies>>
          /\ result' # "ok" =>
               UNCHANGED <<idx_to_node, node_to_idx, individual_pyorities,
                           direct_dependencies>> ]_vars

\* C10's case: the one stored edge was registered, the graph refreshed, and
\* the same edge registered again: the state is stale, and the cached
\* closure is still that of the graph.
C10_Witness ==
  /\ dirty /\ result = "ok"
  /\ Cardinality(direct_dependencies.nz) = 1
  /\ full_dependency_rows # <<>>
  /\ full_dependency_rows[1] =
       set_full_dependency_matrices(direct_dependencies, n_nodes).M
  /\ direct_dependencies.nz \subseteq full_dependency_rows[1].nz

\* C11: every iteration leaves the state fresh, so that an iteration with no
\* mutation before it finds it fresh; and an iteration that finds the state
\* fresh yields the order as it is cached (what the iteration before it
\* yielded) and changes no part of the graph or of the derived state.
C11_IterationRepeats ==
  [][ \/ /\ ~dirty'
         /\ \/ dirty
            \/ /\ iter_yields = order
               /\ UNCHANGED <<dirty, idx_to_node, node_to_idx,
                              direct_dependencies, individual_pyorities,
                              full_dependency_rows, full_pyorities, order>>
      \/ ~iter ]_vars

\* C11's case: a graph whose order is not the order of insertion has been
\* iterated.
C11_Witness ==
  /\ Fresh /\ result = "ok"
  /\ NoDuplicates
  /\ Len(order) >= 2
  /\ order # idx_to_node

\* C12 (as claimed): in every state, stale ones included, the full
\* predecessor query answers, for a registered node, with the nodes it
\* depends on by the nodes and edges registered so far.  (Stated for the
\* graphs no registration has failed on.)
C12_QueriesRefresh ==
  (NoDuplicates /\ result # "hang") =>
    \A node \in Registered :
      LET full == nodes_i_fully_depend_on(node)
      IN  /\ full.raised = ""
          /\ full.val = {m \in Registered \ {node} : DependsOn(node, m)}

\* C13 (as claimed): no call reduces the number of rows the adjacency
\* storage is allocated for.
C13_CapacityNeverDecreases ==
  [][direct_dependencies'.shape[1] >= direct_dependencies.shape[1]]_vars

\* The pairs below the pair at position p: its subtasks, their subtasks, and
\* so on for `depth` more levels.
RECURSIVE Descendants(_, _)
Descendants(p, depth) ==
  LET children == {pairs[p].subtasks[k] : k \in DOMAIN pairs[p].subtasks}
  IN  IF depth = 0 THEN children
      ELSE children \cup UNION {Descendants(c, depth - 1) : c \in children}

\* The full predecessors of a node, when the query returns.
FullPredecessors(node) ==
  IF nodes_i_fully_depend_on(node).raised = ""
  THEN nodes_i_fully_depend_on(node).val ELSE {}

\* After a refresh, the wiring of every pair S below a pair P shows in the
\* full predecessors.
SubtasksWired ==
  Fresh =>
    \A p \in DOMAIN pairs : \A c \in Descendants(p, Len(pairs)) :
      LET P == pairs[p]
          S == pairs[c]
      IN  /\ nodes_i_fully_depend_on(P.end).raised = ""
          /\ nodes_i_fully_depend_on(S.start).raised = ""
          /\ {P.start, S.start, S.end} \subseteq FullPredecessors(P.end)
          /\ P.start \in FullPredecessors(S.start)

\* The pairs a call has added are those of `subtasks`, in the order of the
\* call, and they are appended in that order to the subtask list of the pair
\* at position `parent`.
AppendedInCallOrder(parent, subtasks, first) ==
  LET n == Len(pairs') - first + 1
  IN  /\ n <= Len(subtasks)
      /\ result' = "ok" => n = Len(subtasks)
      /\ pairs'[parent].subtasks =
           (IF parent \in DOMAIN pairs THEN pairs[parent].subtasks ELSE <<>>)
             \o [k \in 1..n |-> first + k - 1]
      /\ \A k \in 1..n :
           /\ objects'[pairs'[first + k - 1].start].data = subtasks[k]
           /\ objects'[pairs'[first + k - 1].end].data = subtasks[k]

\* C14: for every pair S registered under a pair P by add_task(P, ...) or
\* add_subtasks(P, ...), directly or below a subtask of P, after a refresh
\* the full predecessors of End(P) include Start(P), Start(S) and End(S) and
\* those of Start(S) include Start(P); and every call appends the pairs of
\* its subtasks to P's subtask list in the order of the call.
C14_SubtasksAreWired ==
  [][ /\ SubtasksWired'
      /\ \/ pairs' = pairs
         \/ \A subtasks \in SubtaskLists :
              /\ \A parent \in DOMAIN pairs :
                   add_subtasks(parent, subtasks) =>
                     AppendedInCallOrder(parent, subtasks, Len(pairs) + 1)
              /\ \A task \in Tasks :
                   add_task(task, subtasks) =>
                     /\ result' = "ok"
                     /\ objects'[pairs'[Len(pairs) + 1].start].data = task
                     /\ AppendedInCallOrder(Len(pairs) + 1, subtasks,
                                            Len(pairs) + 2) ]_vars

\* C14's case: a refreshed scheduler with a task, a subtask of it, and a
\* subtask of the subtask.
C14_Witness ==
  /\ Fresh /\ result = "ok"
  /\ \E p \in DOMAIN pairs : \E k \in DOMAIN pairs[p].subtasks :
       pairs[pairs[p].subtasks[k]].subtasks # <<>>

\* C15: after a refresh, for every pair add_task has returned, the full
\* predecessors of its End contain its Start; when the direct edges are
\* acyclic, those of its Start do not contain its End; and for a single task
\* with no other edge the Start has no full predecessor and the End has
\* exactly the Start.
C15_EndAfterStart ==
  Fresh =>
    \A p \in DOMAIN pairs :
      LET start == pairs[p].start
          end   == pairs[p].end
      IN  /\ nodes_i_fully_depend_on(end).raised = ""
          /\ nodes_i_fully_depend_on(start).raised = ""
          /\ start \in FullPredecessors(end)
          /\ Acyclic => end \notin FullPredecessors(start)
          /\ (Len(pairs) = 1 /\ Cardinality(direct_dependencies.nz) = 1) =>
               /\ FullPredecessors(start) = {}
               /\ FullPredecessors(end) = {start}

\* C15's case: a refreshed acyclic scheduler in which add_task_dependency has
\* chained two tasks.
C15_Witness ==
  /\ Fresh /\ result = "ok"
  /\ Acyclic
  /\ \E p, q \in DOMAIN pairs :
       /\ p # q
       /\ pairs[q].end \in nodes_i_depend_on(pairs[p].start).val

\* C16: the getter of a link that was never set raises; a setter on a link
\* that is set raises and changes nothing, while one on an unset link sets
\* it; no call ever changes a link that is set; and a TaskNodePair
\* construction that returns leaves pair.start.end = pair.end and
\* pair.end.start = pair.start.
C16_LinksAreSetOnce ==
  [][ /\ \A node \in Starts \cup Ends :
           /\ (objects[node].data = "none" /\ objects'[node].data # "none") =>
                /\ get_end(objects', node).raised
                /\ get_start(objects', node).raised
           /\ objects[node].link # "none" =>
                objects'[node].link = objects[node].link
      /\ \A start \in Starts, end \in Ends :
           /\ assign_end(start, end) =>
                IF get_end(objects, start).raised
                THEN result' = "ok" /\ get_end(objects', start).val = end
                ELSE result' = "Exception" /\ objects' = objects
           /\ assign_start(end, start) =>
                IF get_start(objects, end).raised
                THEN result' = "ok" /\ get_start(objects', end).val = start
                ELSE result' = "Exception" /\ objects' = objects
           /\ new_TaskNodePair(start, end) =>
                IF result' = "ok"
                THEN /\ Len(pairs') = Len(pairs) + 1
                     /\ LET pair == pairs'[Len(pairs')]
                        IN  /\ pair.start = start /\ pair.end = end
                            /\ get_end(objects', pair.start).val = pair.end
                            /\ get_start(objects', pair.end).val = pair.start
                ELSE /\ pairs' = pairs
                     /\ \/ objects[start].data # objects[end].data
                        \/ ~get_end(objects, start).raised
                        \/ ~get_start(objects, end).raised ]_vars

\* C16's case: a pair has been constructed, and the last call tried to set a
\* link of one of its nodes again and raised.
C16_Witness ==
  /\ result = "Exception"
  /\ pairs # <<>>
  /\ \E start \in Starts, end \in Ends :
       /\ objects[start].link # "none" /\ objects[end].link # "none"
       /\ objects[start].link # end

\* The reflexive-transitive closure of the direct dependencies `direct` over
\* the indices 1..n of all registered nodes.
IndexClosure(direct, n) ==
  {<<i, i>> : i \in 1..n} \cup Chains(direct.nz, n)

\* The cache (closure, full pyorities, order) is what a recomputation from
\* the graph (adjacency, weights, nodes) gives.
CacheMatches(cache, graph) ==
  LET n == Len(graph[3])
  IN  /\ cache[1] # <<>>
      /\ cache[1][1].shape = <<n, n>>
      /\ cache[1][1].nz = IndexClosure(graph[1], n)
      /\ cache[1][1] = set_full_dependency_matrices(graph[1], n).M
      /\ \E again \in {set_full_pyorities(graph[2], cache[1][1], cache[1][1],
                                          graph[3])} :
           /\ cache[2] = again.full_pyorities
           /\ cache[3] = again.order

\* The cached derived state is what a recomputation from the current state
\* gives.
CacheIsRecomputation ==
  CacheMatches(<<full_dependency_rows, full_pyorities, order>>,
               <<direct_dependencies, individual_pyorities, idx_to_node>>)

\* C17: whenever the flag is clear the cached closure is the
\* reflexive-transitive closure of the current direct dependencies over all
\* registered nodes, and the cached order the one computed from it; every
\* successful add_node and add_node_dependency sets the flag; prepare()
\* recomputes only when the flag is set, and then clears it.
C17_CacheIsRecomputation ==
  [][ /\ \/ dirty'
         \/ \E cache \in {<<full_dependency_rows', full_pyorities', order'>>},
               graph \in {<<direct_dependencies', individual_pyorities',
                             idx_to_node'>>} : CacheMatches(cache, graph)
      /\ \A node \in Nodes :
           (result' = "ok" /\ add_node(node)) => dirty'
      /\ \A this, that \in Nodes :
           (result' = "ok" /\ add_node_dependency(this, that)) => dirty'
      /\ \/ /\ ~dirty'
            /\ \/ dirty
               \/ UNCHANGED <<direct_dependencies, individual_pyorities,
                              full_dependency_rows, full_pyorities, order>>
         \/ ~prepare ]_vars

\* C17's case: after a refresh of a graph with an edge, the last call was a
\* mutation that raised before it marked anything; the flag is clear.
C17_Witness ==
  /\ ~dirty
  /\ result = "AssertionError"
  /\ direct_dependencies.nz # {}
  /\ n_nodes >= 2

\* C18 (as claimed): in every state nodes_i_depend_on(n) returns, for a
\* registered node n, exactly the nodes p for which add_node_dependency(n, p)
\* has succeeded (an edge is stored at the indices its nodes had when the
\* call succeeded, and is never removed).  Stated for the states a query
\* can be called in.
C18_DirectPredecessorsExact ==
  result # "hang" =>
    \A node \in Registered :
      /\ nodes_i_depend_on(node).raised = ""
      /\ nodes_i_depend_on(node).val =
           {p \in AllNodes : <<p, node>> \in NodeEdges}

\* C18 on the graphs no registration has failed on.
C18_OnGraphsWithoutRepeatedNode ==
  NoDuplicates => C18_DirectPredecessorsExact

\* No call removes a stored direct dependency.
C18_EdgesAreKept ==
  [][direct_dependencies.nz \subseteq direct_dependencies'.nz]_vars

\* C19 (as claimed): an add_node or add_node_dependency call that raises
\* leaves the node sequence, the index map, the stored weights and the
\* direct dependencies as they were.
C19_FailedMutationLeavesGraph ==
  [][ ( /\ result' \notin {"ok", "hang"}
        /\ \/ \E node \in Nodes : add_node(node)
           \/ \E this, that \in Nodes : add_node_dependency(this, that) )
      => UNCHANGED <<idx_to_node, node_to_idx, individual_pyorities,
                     direct_dependencies>> ]_vars

\* C19 for add_node_dependency alone: the part of the claim the code keeps.
C19_FailedDependencyLeavesGraph ==
  [][ ( /\ result' \notin {"ok", "hang"}
        /\ \E this, that \in Nodes : add_node_dependency(this, that) )
      => UNCHANGED <<idx_to_node, node_to_idx, individual_pyorities,
                     direct_dependencies>> ]_vars

\* C19 for add_task (as claimed): no Start node is registered without its
\* End.  An add_task of a task of negative weight raises in
\* add_node(pair.start), after the node is registered.
C19_NoStartWithoutEnd ==
  \A k \in DOMAIN StartNames :
    node_to_idx[StartNames[k]] # 0 => node_to_idx[EndNames[k]] # 0

\* The number of times a node occurs in a sequence.
Count(seq, node) == Cardinality({k \in DOMAIN seq : seq[k] = node})

\* C20: an iteration yields a permutation of idx_to_node: every node as
\* often as idx_to_node holds it and nothing else, which is exactly once for
\* every registered node when all add_node calls have succeeded.
C20_IterationIsPermutation ==
  [][ \/ /\ Len(iter_yields) = Len(idx_to_node')
         /\ \A node \in AllNodes :
              /\ Count(iter_yields, node) = Count(idx_to_node', node)
              /\ NoDuplicates' =>
                   Count(iter_yields, node) = IF node \in Registered' THEN 1 ELSE 0
      \/ ~iter ]_vars

\* C20's case: two nodes and an edge, registered by calls that all
\* succeeded, have been iterated.
C20_Witness ==
  /\ Fresh /\ result = "ok"
  /\ idx_to_node \in {<<"a", "b">>, <<"b", "a">>}
  /\ Cardinality(direct_dependencies.nz) = 1
  /\ {order[k] : k \in DOMAIN order} = {"a", "b"}

====
